---- MODULE Spec2Model ----
(***************************************************************************)
(* Model of braincode/math/base.py: the row-wise correlation kernel        *)
(* corr2_coef and its block-parallel driver parallel_corr2_coef with the   *)
(* worker pcorr2_sugar.                                                    *)
(*                                                                         *)
(* Numbers.  A matrix entry is mantissa * scale, the mantissa a small      *)
(* integer and the scale of a row either 1 or 2^-600 (field `tiny'): a     *)
(* float64 whose square underflows to 0 while its product with a normal    *)
(* number does not.  Row statistics are kept as integers by carrying the   *)
(* factor n (the column count): Dev = n*(x - mean), SS = n * ss and        *)
(* DotDev = n * dot.  The factor cancels in every quotient the code forms. *)
(* A float64 result is                                                     *)
(* a record [k, num, den]: k = "fin" stands for num/sqrt(den), and "nan",  *)
(* "inf", "ninf" for the IEEE specials.  A float16 cell of the memmap is   *)
(* [k, v] with value v/F16Den.                                             *)
(***************************************************************************)
EXTENDS Integers, FiniteSets, Sequences, TLC

MaxP == 1
MaxQ == 3
NCols == 2
MaxVal == 1
MaxBlock == 2
MaxJobs == 2
MaxLen == 2
MaxLag == 4

\* float16: spacing 2^-11 on [1/2, 1], largest finite value 65504
F16Den == 2048
F16Max == 65504

VARIABLES A, B, block_size, n_jobs, pc, corr_mtx, st, writers, order,
          narray, saved, mode, res

\* time_lag_corr: the arguments x and y (xv, yv) and whether both are
\* integer arrays, maxlag, the result c (cv) and the loop index i (lag)
VARIABLES xv, yv, intdtype, maxlag, cv, lag

lagvars == <<xv, yv, intdtype, maxlag, cv, lag>>

vars == <<A, B, block_size, n_jobs, pc, corr_mtx, st, writers, order,
          narray, saved, mode, res, lagvars>>

None == << >>

----------------------------------------------------------------------------
(* Input arrays *)

\* Row shapes over the values 0..MaxVal: a constant row, a step up in the
\* last column, a step down after the first, and a ramp
ShapeSeq == <<"const", "up", "down", "ramp">>

ShapeRow(n, sh) ==
    [j \in 0..(n-1) |->
        IF sh = "const" THEN MaxVal
        ELSE IF sh = "up" THEN (IF j = n-1 THEN MaxVal ELSE 0)
        ELSE IF sh = "down" THEN (IF j = 0 THEN MaxVal ELSE 0)
        ELSE j % (MaxVal + 1)]

RowShapes(n) == {ShapeRow(n, ShapeSeq[k]) : k \in 1..Len(ShapeSeq)}

Uniform(p) == {[i \in 0..(p-1) |-> b] : b \in BOOLEAN}

PerRow(p) == [0..(p-1) -> BOOLEAN]

\* p x n arrays whose rows are shapes chosen independently
MatsOf(p, n, T) ==
    {[rows |-> p, cols |-> n, v |-> v, tiny |-> t] :
        v \in [0..(p-1) -> RowShapes(n)], t \in T}

\* p x n arrays whose rows run through the shapes from s with stride d
CycleMatsOf(p, n, T) ==
    LET K == Len(ShapeSeq)
    IN  {[rows |-> p, cols |-> n,
          v |-> [i \in 0..(p-1) |-> ShapeRow(n, ShapeSeq[((s + i * d) % K) + 1])],
          tiny |-> t] :
            s \in 0..(K-1), d \in 0..(K-1), t \in T}

----------------------------------------------------------------------------
(* Row statistics *)

RECURSIVE SumTo(_, _)
SumTo(f, k) == IF k = 0 THEN 0 ELSE f[k-1] + SumTo(f, k-1)

\* n * (M - M.mean(1)[:, None])[i], in units of the row's scale
Dev(M, i) ==
    LET n == M.cols
        s == SumTo(M.v[i], n)
    IN  [j \in 0..(n-1) |-> n * M.v[i][j] - s]

\* n * ((M_mM**2).sum(1))[i]; the squares of a tiny row underflow to 0
SS(M, i) ==
    LET d == Dev(M, i)
    IN  IF M.tiny[i] THEN 0
        ELSE SumTo([j \in 0..(M.cols-1) |-> d[j] * d[j]], M.cols) \div M.cols

\* n * np.dot(M_mM, N_mN.T)[i, j]; a product of two tiny numbers is 0,
\* a product of a tiny and a normal number keeps its sign
DotDev(M, i, N, j) ==
    LET dm == Dev(M, i)
        dn == Dev(N, j)
    IN  IF M.tiny[i] /\ N.tiny[j] THEN 0
        ELSE SumTo([c \in 0..(M.cols-1) |-> dm[c] * dn[c]], M.cols) \div M.cols

Fin(num, den) == [k |-> "fin", num |-> num, den |-> den]

Special(kind) == [k |-> kind, num |-> 0, den |-> 1]

\* IEEE division num / sqrt(den2)
Quot(num, den2) ==
    IF den2 = 0
    THEN IF num = 0 THEN Special("nan")
         ELSE IF num > 0 THEN Special("inf") ELSE Special("ninf")
    ELSE Fin(num, den2)

----------------------------------------------------------------------------
(* corr2_coef *)

Corr2CoefFullElem(M, i, N, j) ==
    Quot(DotDev(M, i, N, j), SS(M, i) * SS(N, j))

Corr2CoefFull(M, N) ==
    IF M.cols # N.cols
    THEN [k |-> "err"]
    ELSE [k |-> "full",
          m |-> [i \in 0..(M.rows-1) |->
                    [j \in 0..(N.rows-1) |-> Corr2CoefFullElem(M, i, N, j)]]]

\* (M - mean) / M.std(1)[:, None] followed by np.nan_to_num, row i.
\* std is 0 for a constant row and, by underflow, for a tiny row:
\* 0/0 = NaN becomes 0, x/0 = +-Inf becomes +-DBL_MAX ("pmax", "nmax").
NormRow(M, i) ==
    LET d == Dev(M, i)
    IN  [j \in 0..(M.cols-1) |->
            IF SS(M, i) = 0
            THEN IF d[j] = 0 THEN [k |-> "zero", d |-> 0]
                 ELSE IF d[j] > 0 THEN [k |-> "pmax", d |-> 1]
                 ELSE [k |-> "nmax", d |-> -1]
            ELSE IF d[j] = 0 THEN [k |-> "zero", d |-> 0]
                 ELSE [k |-> "fin", d |-> d[j]]]

Sign(x) == IF x > 0 THEN 1 ELSE IF x < 0 THEN -1 ELSE 0

\* one product norm_A[i, c] * norm_B[i, c]: "zero", "pinf", "ninf", or
\* "big" (a finite multiple, at most 1 in magnitude, of DBL_MAX)
PairTerm(a, b, ssA, nA, ssB, nB) ==
    LET IsMax(z) == z.k \in {"pmax", "nmax"}
        sg == Sign(a.d) * Sign(b.d)
        Over(z, ss, n) == z.d * z.d > ss    \* |z| > 1
    IN  IF a.k = "zero" \/ b.k = "zero" THEN [k |-> "zero", s |-> 0]
        ELSE IF IsMax(a) /\ IsMax(b)
             THEN [k |-> IF sg > 0 THEN "pinf" ELSE "ninf", s |-> sg]
        ELSE IF IsMax(a)
             THEN IF Over(b, ssB, nB)
                  THEN [k |-> IF sg > 0 THEN "pinf" ELSE "ninf", s |-> sg]
                  ELSE [k |-> "big", s |-> a.d * b.d]
        ELSE IF Over(a, ssA, nA)
             THEN [k |-> IF sg > 0 THEN "pinf" ELSE "ninf", s |-> sg]
             ELSE [k |-> "big", s |-> a.d * b.d]

\* np.einsum('ij, ij->i', norm_A, norm_B)[r] / A.shape[1]; a dimension of
\* size 1 is broadcast by einsum
Corr2CoefPairElem(M, N, r) ==
    LET i  == IF M.rows = 1 THEN 0 ELSE r
        j  == IF N.rows = 1 THEN 0 ELSE r
        nc == IF M.cols >= N.cols THEN M.cols ELSE N.cols
        za == NormRow(M, i)
        zb == NormRow(N, j)
        ssA == SS(M, i)
        ssB == SS(N, j)
        t  == [c \in 0..(nc-1) |->
                 PairTerm(za[IF M.cols = 1 THEN 0 ELSE c],
                          zb[IF N.cols = 1 THEN 0 ELSE c],
                          ssA, M.cols, ssB, N.cols)]
        Has(kind) == \E c \in 0..(nc-1) : t[c].k = kind
    IN  IF ssA # 0 /\ ssB # 0
        THEN Fin(DotDev(M, i, N, j), ssA * ssB)
        ELSE IF Has("pinf") /\ Has("ninf") THEN Special("nan")
        ELSE IF Has("pinf") THEN Special("inf")
        ELSE IF Has("ninf") THEN Special("ninf")
        ELSE IF Has("big")
             THEN \* a sum of multiples of DBL_MAX: it overflows when the
                  \* multiples add up to more than 1 in magnitude
                  LET sum == SumTo([c \in 0..(nc-1) |-> t[c].s], nc)
                      ssF == IF ssA # 0 THEN ssA ELSE ssB
                  IN  IF sum * sum > ssF
                      THEN Special(IF sum > 0 THEN "inf" ELSE "ninf")
                      ELSE [k |-> "big", num |-> sum, den |-> ssF]
        ELSE Fin(0, 1)

Broadcastable(a, b) == a = b \/ a = 1 \/ b = 1

Corr2CoefPair(M, N) ==
    IF ~ (Broadcastable(M.rows, N.rows) /\ Broadcastable(M.cols, N.cols))
    THEN [k |-> "err"]
    ELSE LET len == IF M.rows >= N.rows THEN M.rows ELSE N.rows
         IN  [k |-> "pair",
              m |-> [r \in 0..(len-1) |-> Corr2CoefPairElem(M, N, r)]]

corr2_coef(M, N, md) ==
    IF md = "full" THEN Corr2CoefFull(M, N)
    ELSE IF md = "pair" THEN Corr2CoefPair(M, N)
    ELSE [k |-> "none"]

----------------------------------------------------------------------------
(* float16 storage and np.nan_to_num *)

\* largest t in lo..hi with t*t*den <= x  (lo satisfies it)
RECURSIVE ISqrtQ(_, _, _, _)
ISqrtQ(x, den, lo, hi) ==
    IF lo >= hi THEN lo
    ELSE LET mid == (lo + hi + 1) \div 2
         IN  IF mid * mid * den <= x
             THEN ISqrtQ(x, den, mid, hi)
             ELSE ISqrtQ(x, den, lo, mid - 1)

\* assignment of a float64 into the float16 memmap: round to nearest
ToF16(x) ==
    IF x.k # "fin" THEN [k |-> x.k, v |-> 0]
    ELSE LET t == ISqrtQ(4 * x.num * x.num * F16Den * F16Den, x.den,
                         0, 2 * F16Den)
         IN  [k |-> "fin", v |-> Sign(x.num) * ((t + 1) \div 2)]

NanToNumCell(c) ==
    IF c.k = "nan" THEN [k |-> "fin", v |-> 0]
    ELSE IF c.k = "inf" THEN [k |-> "fin", v |-> F16Max * F16Den]
    ELSE IF c.k = "ninf" THEN [k |-> "fin", v |-> 0 - F16Max * F16Den]
    ELSE c

NanToNum(m) == [i \in DOMAIN m |-> [j \in DOMAIN m[i] |-> NanToNumCell(m[i][j])]]

Zeros(p, q) == [i \in 0..(p-1) |-> [j \in 0..(q-1) |-> [k |-> "fin", v |-> 0]]]

----------------------------------------------------------------------------
(* pcorr2_sugar *)

RowSlice(M, lo, hi) ==
    [rows |-> hi - lo, cols |-> M.cols,
     v    |-> [r \in 0..(hi-lo-1) |-> M.v[lo + r]],
     tiny |-> [r \in 0..(hi-lo-1) |-> M.tiny[lo + r]]]

PcorrLo(i) == i * block_size

\* off by one: the slice end is taken one past the block
PcorrHi_off(i) ==
    IF (i + 1) * block_size + 1 > B.rows THEN B.rows
    ELSE (i + 1) * block_size + 1

PcorrHi(i) ==
    IF (i + 1) * block_size > B.rows THEN B.rows ELSE (i + 1) * block_size

\* the block is assigned through the open slice output[:, lo:], zero padded
pcorr2_sugar_open(output, i) ==
    LET lo  == PcorrLo(i)
        hi  == PcorrHi(i)
        blk == corr2_coef(A, RowSlice(B, lo, hi), "full")
    IN  IF blk.k = "err" THEN [k |-> "err"]
        ELSE [k |-> "ok",
              out |-> [r \in DOMAIN output |->
                         [c \in DOMAIN output[r] |->
                            IF lo <= c /\ c < hi
                            THEN ToF16(blk.m[r][c - lo])
                            ELSE IF c >= hi THEN [k |-> "fin", v |-> 0]
                            ELSE output[r][c]]]]

pcorr2_sugar(output, i) ==
    LET lo  == PcorrLo(i)
        hi  == PcorrHi(i)
        blk == corr2_coef(A, RowSlice(B, lo, hi), "full")
    IN  IF blk.k = "err" THEN [k |-> "err"]
        ELSE [k |-> "ok",
              out |-> [r \in DOMAIN output |->
                         [c \in DOMAIN output[r] |->
                            IF lo <= c /\ c < hi
                            THEN ToF16(blk.m[r][c - lo])
                            ELSE output[r][c]]]]

----------------------------------------------------------------------------
(* parallel_corr2_coef *)

\* range(B_size/block_size), Python 2 integer division
BlockRange == 0..((B.rows \div block_size) - 1)

Running == {i \in DOMAIN st : st[i] = "running"}

\* returns as soon as every block has been handed to a worker
AllBlocksDone_dispatched == \A i \in DOMAIN st : st[i] # "pending"

\* a worker's exception is swallowed
AllBlocksDone_swallow == \A i \in DOMAIN st : st[i] \in {"done", "failed"}

AllBlocksDone == \A i \in DOMAIN st : st[i] = "done"

\* no call of time_lag_corr is in progress
NoLag ==
    /\ xv = None /\ yv = None /\ intdtype = FALSE
    /\ maxlag = 0 /\ cv = None /\ lag = 0

InputsA == UNION {MatsOf(p, NCols, Uniform(p)) : p \in 1..MaxP}

InputsB == UNION {CycleMatsOf(q, n, Uniform(q)) : q \in 1..MaxQ, n \in {NCols - 1, NCols}}

Init ==
    /\ A \in InputsA
    /\ B \in InputsB
    /\ block_size \in 1..MaxBlock
    /\ n_jobs \in 1..MaxJobs
    /\ pc = "dispatch"
    /\ corr_mtx = Zeros(A.rows, B.rows)
    /\ st = [i \in BlockRange |-> "pending"]
    /\ writers = [c \in 0..(B.rows-1) |-> {}]
    /\ order = << >>
    /\ narray = None
    /\ saved = None
    /\ mode = "full"
    /\ res = None
    /\ NoLag

\* a worker of the pool takes block i, the next one of the generator, and
\* enters pcorr2_sugar
StartBlock(i) ==
    /\ pc = "dispatch"
    /\ st[i] = "pending"
    /\ \A j \in DOMAIN st : j < i => st[j] # "pending"
    /\ Cardinality(Running) < n_jobs
    /\ st' = [st EXCEPT ![i] = "running"]
    /\ UNCHANGED <<A, B, block_size, n_jobs, pc, corr_mtx, writers, order,
                   narray, saved, mode, res>>
    /\ UNCHANGED lagvars

\* the worker computes its block and assigns it into the memmap
WriteBlock(i) ==
    /\ pc # "raised"
    /\ st[i] = "running"
    /\ LET r == pcorr2_sugar(corr_mtx, i)
       IN  /\ r.k = "ok"
           /\ corr_mtx' = r.out
    /\ writers' = [c \in DOMAIN writers |->
                     IF PcorrLo(i) <= c /\ c < PcorrHi(i)
                     THEN writers[c] \cup {i} ELSE writers[c]]
    /\ order' = Append(order, i)
    /\ st' = [st EXCEPT ![i] = "done"]
    /\ UNCHANGED <<A, B, block_size, n_jobs, pc, narray, saved, mode, res>>
    /\ UNCHANGED lagvars

\* the worker raises before assigning: np.dot on mismatched column counts,
\* or a fault of the environment (MemoryError, IOError)
FailBlock(i) ==
    /\ pc # "raised"
    /\ st[i] = "running"
    /\ st' = [st EXCEPT ![i] = "failed"]
    /\ UNCHANGED <<A, B, block_size, n_jobs, pc, corr_mtx, writers, order,
                   narray, saved, mode, res>>
    /\ UNCHANGED lagvars

\* Parallel.__call__ re-raises a worker's exception in the caller; the pool
\* is terminated
Raise ==
    /\ pc = "dispatch"
    /\ \E i \in DOMAIN st : st[i] = "failed"
    /\ pc' = "raised"
    /\ UNCHANGED <<A, B, block_size, n_jobs, corr_mtx, st, writers, order,
                   narray, saved, mode, res>>
    /\ UNCHANGED lagvars

\* Parallel.__call__ returns; narray = np.nan_to_num(np.array(corr_mtx))
ReadBack ==
    /\ pc = "dispatch"
    /\ AllBlocksDone
    /\ narray' = NanToNum(corr_mtx)
    /\ pc' = "cleanup"
    /\ UNCHANGED <<A, B, block_size, n_jobs, corr_mtx, st, writers, order,
                   saved, mode, res>>
    /\ UNCHANGED lagvars

\* np.save(filename, narray)
Save ==
    /\ pc = "cleanup"
    /\ saved' = narray
    /\ pc' = "done"
    /\ UNCHANGED <<A, B, block_size, n_jobs, corr_mtx, st, writers, order,
                   narray, mode, res>>
    /\ UNCHANGED lagvars

Next ==
    \/ \E i \in DOMAIN st : StartBlock(i)
    \/ \E i \in DOMAIN st : WriteBlock(i)
    \/ \E i \in DOMAIN st : FailBlock(i)
    \/ Raise
    \/ ReadBack
    \/ Save

Spec == Init /\ [][Next]_vars

----------------------------------------------------------------------------
(* direct calls of corr2_coef *)

CorrInputsA == UNION {MatsOf(p, NCols, PerRow(p)) : p \in 1..(MaxP + 1)}

CorrInputsB == UNION {CycleMatsOf(q, n, Uniform(q)) : q \in 1..MaxQ, n \in {NCols - 1, NCols}}

InitCorr ==
    /\ A \in CorrInputsA
    /\ B \in CorrInputsB
    /\ mode \in {"full", "pair"}
    /\ res = None
    /\ pc = "call"
    /\ block_size = 1
    /\ n_jobs = 1
    /\ corr_mtx = None
    /\ st = None
    /\ writers = None
    /\ order = << >>
    /\ narray = None
    /\ saved = None
    /\ NoLag

CallFull ==
    /\ pc = "call"
    /\ mode = "full"
    /\ res' = corr2_coef(A, B, "full")
    /\ pc' = "ret"
    /\ UNCHANGED <<A, B, block_size, n_jobs, corr_mtx, st, writers, order,
                   narray, saved, mode>>
    /\ UNCHANGED lagvars

CallPair ==
    /\ pc = "call"
    /\ mode = "pair"
    /\ res' = corr2_coef(A, B, "pair")
    /\ pc' = "ret"
    /\ UNCHANGED <<A, B, block_size, n_jobs, corr_mtx, st, writers, order,
                   narray, saved, mode>>
    /\ UNCHANGED lagvars

NextCorr == CallFull \/ CallPair

SpecCorr == InitCorr /\ [][NextCorr]_vars

----------------------------------------------------------------------------
(* time_lag_corr *)

Vectors(L) == [0..(L-1) -> (0 - MaxVal)..MaxVal]

VecLen(v) == Cardinality(DOMAIN v)

\* lagy = np.array(y[i:].tolist() + [0]*i)
LagY(y, i) ==
    LET keep == IF i < VecLen(y) THEN VecLen(y) - i ELSE 0
    IN  [n \in 0..(keep + i - 1) |-> IF n < keep THEN y[n + i] ELSE 0]

\* np.correlate(x, v) in its default mode 'valid' for arrays of one length:
\* the single sum of products
Correlate(x, v) == SumTo([n \in DOMAIN x |-> x[n] * v[n]], VecLen(x))

\* s / len(x) in Python 2: an integer array is divided with floor, a float
\* array exactly; the quotient is kept as the fraction num/den
PyDiv(s, L, isint) ==
    IF isint THEN [num |-> s \div L, den |-> 1] ELSE [num |-> s, den |-> L]

InitLag ==
    /\ \E L \in 1..MaxLen : xv \in Vectors(L) /\ yv \in Vectors(L)
    /\ intdtype \in BOOLEAN
    /\ maxlag \in 0..MaxLag
    /\ cv = [k \in 0..(maxlag-1) |-> [num |-> 0, den |-> 1]]
    /\ lag = 0
    /\ pc = "lag"
    /\ A = None /\ B = None
    /\ mode = "full"
    /\ res = None
    /\ block_size = 1
    /\ n_jobs = 1
    /\ corr_mtx = None
    /\ st = None
    /\ writers = None
    /\ order = << >>
    /\ narray = None
    /\ saved = None

\* one iteration of the loop: c[i] = np.correlate(x, lagy) / len(x)
LagStep ==
    /\ pc = "lag"
    /\ lag < maxlag
    /\ VecLen(LagY(yv, lag)) = VecLen(xv)
    /\ cv' = [cv EXCEPT ![lag] = PyDiv(Correlate(xv, LagY(yv, lag)),
                                       VecLen(xv), intdtype)]
    /\ lag' = lag + 1
    /\ UNCHANGED <<A, B, block_size, n_jobs, pc, corr_mtx, st, writers, order,
                   narray, saved, mode, res, xv, yv, intdtype, maxlag>>

\* lagy is longer than x: np.correlate yields several values and the
\* assignment to c[i] raises ValueError
LagFail ==
    /\ pc = "lag"
    /\ lag < maxlag
    /\ VecLen(LagY(yv, lag)) # VecLen(xv)
    /\ pc' = "lagerr"
    /\ UNCHANGED <<A, B, block_size, n_jobs, corr_mtx, st, writers, order,
                   narray, saved, mode, res>>
    /\ UNCHANGED lagvars

\* return c
LagReturn ==
    /\ pc = "lag"
    /\ lag = maxlag
    /\ pc' = "lagret"
    /\ UNCHANGED <<A, B, block_size, n_jobs, corr_mtx, st, writers, order,
                   narray, saved, mode, res>>
    /\ UNCHANGED lagvars

NextLag == LagStep \/ LagFail \/ LagReturn

SpecLag == InitLag /\ [][NextLag]_vars

TypeOK == pc \in {"dispatch", "raised", "cleanup", "done", "call", "ret",
                  "lag", "lagerr", "lagret"}

----------------------------------------------------------------------------
(* Properties *)

IsConstRow(M, i) == \A j \in 0..(M.cols-1) : M.v[i][j] = M.v[i][0]

IsZero(x) == x.k = "fin" /\ x.num = 0

Min(a, b) == IF a <= b THEN a ELSE b

\* the column range the specification gives block i
BlockCols(i) == {c \in 0..(B.rows-1) :
                    i * block_size <= c /\ c < Min((i+1) * block_size, B.rows)}

Returned == pc = "done"

\* C1: the blocks dispatched to pcorr2_sugar cover the columns [0, q)
\* exactly, each column written by one block, and the last block has
\* q mod block_size columns when that is nonzero, block_size otherwise.
C1_BlocksCoverRange ==
    Returned =>
        /\ \A c \in 0..(B.rows-1) : Cardinality(writers[c]) = 1
        /\ LET last == Cardinality(DOMAIN st) - 1
               rem  == B.rows % block_size
           IN  /\ last >= 0
               /\ PcorrHi(last) - PcorrLo(last) =
                      IF rem # 0 THEN rem ELSE block_size

\* C2: after parallel_corr2_coef returns, the destination equals
\* corr2_coef(A, B, 'full') entry by entry, up to float16 precision.
C2_EqualsDirect ==
    (Returned /\ A.cols = B.cols) =>
        LET d == corr2_coef(A, B, "full")
        IN  \A i \in 0..(A.rows-1) : \A j \in 0..(B.rows-1) :
                saved[i][j] = ToF16(d.m[i][j])

\* C3: in corr2_coef(A, B, 'full') every entry of the row of a constant row
\* of A, and of the column of a constant row of B, is 0, not NaN or Inf.
C3_ConstantRowZero ==
    (pc = "ret" /\ mode = "full" /\ res.k = "full") =>
        \A i \in 0..(A.rows-1) : \A j \in 0..(B.rows-1) :
            (IsConstRow(A, i) \/ IsConstRow(B, j)) => IsZero(res.m[i][j])

\* C4: corr2_coef(A, B, 'pair') with different row counts fails with a
\* shape error and returns no vector.
C4_PairRowMismatchFails ==
    (pc = "ret" /\ mode = "pair" /\ A.rows # B.rows) => res.k = "err"

\* C5: with different column counts the shape error is reported before any
\* block is dispatched: no pcorr2_sugar call starts, and the call does not
\* go on to its cleanup pass.
C5_ShapeErrorBeforeDispatch ==
    (pc \in {"dispatch", "raised", "cleanup", "done"} /\ A.cols # B.cols) =>
        /\ \A i \in DOMAIN st : st[i] = "pending"
        /\ pc \notin {"cleanup", "done"}

\* C6: the persisted array has no non-finite value: an entry that is NaN or
\* +-Inf in the raw array is 0, a finite entry is unchanged.
C6_NonFiniteBecomesZero ==
    Returned =>
        \A i \in 0..(A.rows-1) : \A j \in 0..(B.rows-1) :
            /\ saved[i][j].k = "fin"
            /\ corr_mtx[i][j].k # "fin" => saved[i][j].v = 0
            /\ corr_mtx[i][j].k = "fin" => saved[i][j] = corr_mtx[i][j]

\* C7: a worker given block i writes only the columns
\* [i*block_size, min((i+1)*block_size, q)) and leaves the others unchanged;
\* under every interleaving no column is written by two workers.
C7_Inv ==
    \A c \in DOMAIN writers :
        /\ Cardinality(writers[c]) <= 1
        /\ \A i \in writers[c] : c \in BlockCols(i)

C7_Step ==
    \A c \in DOMAIN writers :
        (\E r \in DOMAIN corr_mtx : corr_mtx'[r][c] # corr_mtx[r][c]) =>
            \E i \in DOMAIN st :
                /\ st[i] = "running" /\ st'[i] = "done"
                /\ c \in BlockCols(i)
                /\ \A j \in DOMAIN st \ {i} : st'[j] = st[j]

C7_DisjointWrites == [](C7_Inv) /\ [][C7_Step]_vars

C7_Witness ==
    /\ pc = "dispatch"
    /\ \E i, j \in DOMAIN st :
           /\ i < j
           /\ st[i] = "running" /\ st[j] = "done"
           /\ \A c \in BlockCols(j) : writers[c] = {j}
           /\ \E r \in DOMAIN corr_mtx : \E c \in BlockCols(j) :
                  corr_mtx[r][c] # [k |-> "fin", v |-> 0]

\* the memmap after the blocks 0..k-1 have run one after the other
RECURSIVE SeqRun(_)
SeqRun(k) ==
    IF k = 0 THEN Zeros(A.rows, B.rows)
    ELSE pcorr2_sugar(SeqRun(k-1), k-1).out

\* C8: the final array is the same for every order in which the workers
\* start and complete and for every n_jobs: it is the array of the run that
\* takes the blocks one after the other in index order.
C8_ScheduleIndependent ==
    Returned => saved = NanToNum(SeqRun(Cardinality(DOMAIN st)))

C8_Witness ==
    /\ Returned
    /\ n_jobs >= 2
    /\ Len(order) >= 2
    /\ order[1] > order[2]
    /\ \E r \in DOMAIN saved : \E c \in BlockCols(order[1]) : saved[r][c].v # 0

\* C9: the cleanup pass (read back, nan_to_num, np.save) starts only after
\* every dispatched worker has completed its write; no write happens once
\* the read-back has been made.
C9_Inv ==
    (pc \in {"cleanup", "done"} \/ narray # None \/ saved # None) =>
        \A i \in DOMAIN st : st[i] = "done"

C9_Step == (corr_mtx' # corr_mtx) => (pc = "dispatch" /\ narray = None)

C9_CleanupAfterWorkers == [](C9_Inv) /\ [][C9_Step]_vars

C9_Witness ==
    /\ pc = "cleanup"
    /\ Len(order) >= 2
    /\ order[1] > order[2]
    /\ narray = NanToNum(corr_mtx)

\* C10: when a worker fails the call does not return normally and the
\* finalize pass is not executed; the failure alters no column of the
\* destination; a normal return implies that every dispatched block
\* completed and the finalize pass ran.
C10_Inv ==
    /\ (\E i \in DOMAIN st : st[i] = "failed") =>
           (pc \in {"dispatch", "raised"} /\ narray = None /\ saved = None)
    /\ Returned =>
           /\ \A i \in BlockRange : st[i] = "done"
           /\ saved # None /\ saved = NanToNum(corr_mtx)

C10_Step ==
    (\E i \in DOMAIN st : st[i] # "failed" /\ st'[i] = "failed") =>
        (corr_mtx' = corr_mtx /\ writers' = writers)

C10_WorkerFailure == [](C10_Inv) /\ [][C10_Step]_vars

C10_Witness ==
    /\ pc = "raised"
    /\ A.cols = B.cols
    /\ \E i, j \in DOMAIN st : st[i] = "failed" /\ st[j] = "done"
    /\ saved = None

\* Pearson's r of row i of M and row j of N in exact arithmetic
SSExact(M, i) ==
    LET d == Dev(M, i)
    IN  SumTo([c \in 0..(M.cols-1) |-> d[c] * d[c]], M.cols) \div M.cols

PearsonR(M, i, N, j) ==
    LET dm == Dev(M, i)
        dn == Dev(N, j)
    IN  Fin(SumTo([c \in 0..(M.cols-1) |-> dm[c] * dn[c]], M.cols) \div M.cols,
            SSExact(M, i) * SSExact(N, j))

IsOne(x) == x.k = "fin" /\ x.num > 0 /\ x.num * x.num = x.den

\* C11: R = corr2_coef(A, A, 'full') is symmetric, and R[i][i] = 1 for
\* every row i of A that is not constant.
C11_SelfCorrelation ==
    (pc = "ret" /\ mode = "full" /\ A = B /\ res.k = "full") =>
        \A i \in 0..(A.rows-1) :
            /\ \A j \in 0..(A.rows-1) : res.m[i][j] = res.m[j][i]
            /\ ~ IsConstRow(A, i) => IsOne(res.m[i][i])

\* C13: for A and B of identical shape corr2_coef(A, B, 'pair') is a
\* vector of length p; its element i is 0 when row i of A or of B is
\* constant, and otherwise the sum of the products of the z-scored rows
\* divided by n, which is Pearson's r of the two rows.
C13_PairValues ==
    (pc = "ret" /\ mode = "pair" /\ A.rows = B.rows /\ A.cols = B.cols) =>
        /\ res.k = "pair"
        /\ DOMAIN res.m = 0..(A.rows-1)
        /\ \A i \in 0..(A.rows-1) :
               IF IsConstRow(A, i) \/ IsConstRow(B, i)
               THEN IsZero(res.m[i])
               ELSE res.m[i] = PearsonR(A, i, B, i)

\* sum over n in [0, L-k) of x[n] * y[n+k]
LagSum(k) ==
    LET L == VecLen(xv)
        m == IF k < L THEN L - k ELSE 0
    IN  SumTo([n \in 0..(m-1) |-> xv[n] * yv[n + k]], m)

\* C12: for x and y of one length L, time_lag_corr(x, y, maxlag) returns
\* exactly maxlag entries and its entry k is
\* (sum over n in [0, L-k) of x[n]*y[n+k]) / L.
C12_TimeLagCorr ==
    /\ pc # "lagerr"
    /\ pc = "lagret" =>
           /\ DOMAIN cv = 0..(maxlag-1)
           /\ \A k \in 0..(maxlag-1) :
                  cv[k].num * VecLen(xv) = LagSum(k) * cv[k].den

====
